---- MODULE Spec2Model ----
(***************************************************************************)
(* A model of the MLM commission engine: the record validation, the forest *)
(* builder, the structural validator, the profit deriver, the commission   *)
(* aggregator and the statistics reporter, driven through the             *)
(* CommissionEngine facade (Spec, SpecDeriver, SpecAggregator) or          *)
(* component by component (SpecBuilder, SpecLoader, SpecComponents).       *)
(*                                                                         *)
(* Numbers.  Python's float arithmetic is modelled by exact rational       *)
(* arithmetic: a value is a pair <<n, d>> in lowest terms with d > 0.      *)
(* round(x, 2) is modelled as round-half-to-even of the exact value to an  *)
(* integer number of hundredths.  Binary64 representation error is not     *)
(* part of the model.                                                      *)
(*                                                                         *)
(* Objects.  Partner objects live in a heap tree.objs; the index of an     *)
(* object is the position of the record that created it.  tree.partners    *)
(* maps an id to the index of the object stored under it, tree.keys is the *)
(* insertion order of the dict keys, tree.roots and the children lists     *)
(* hold object indices, so aliasing and stale objects are visible.         *)
(***************************************************************************)
EXTENDS Integers, Sequences, FiniteSets, TLC

VARIABLES
    tree,        \* CommissionEngine.tree: None or the loaded PartnerTree
    op,          \* the operation called last
    err,         \* the kind of error it raised, "none" if it returned
    info,        \* the ids the error carries
    result,      \* the value it returned
    data,        \* the argument of the load_partners / build_from_data that built the
                 \* forest held, or that has just failed
    date,        \* the reference date of the last calculate_daily_profits on this forest
    first,       \* under SpecRerun: the first output of calculate_commissions on this
                 \* forest, and the re-runs
    was_loaded,  \* whether the engine held a forest when the last operation began
    events,      \* what the last operation did to the nodes, if it was calculate_commissions
    detector_visited  \* CycleDetector.visited of the validator, as the last has_cycles left it

vars == <<tree, op, err, info, result, data, date, first, was_loaded, events, detector_visited>>

----------------------------------------------------------------------------
(* Bounds of the explored inputs *)

MaxRecords == 3
MaxId == 3
MissingId == 999

Ids == 1..MaxId
\* the monthly_revenue of the k-th record of an explored list
Revenues == <<3100, 1550, -620, 930>>
RevenueAt(k) == Revenues[((k - 1) % Len(Revenues)) + 1]
Dates == {<<2024, 1>>, <<2023, 2>>}

----------------------------------------------------------------------------
(* Python values of record fields: a tag and, for integers, the value *)

IntV(n) == [t |-> "int", v |-> n]
NoneV == [t |-> "none", v |-> 0]
StrV == [t |-> "str", v |-> 0]
AbsentV == [t |-> "absent", v |-> 0]

\* a string value: v tells strings apart, 0 is the empty string
NameV(k) == [t |-> "str", v |-> k]

\* a record without the optional key name, and the same record with a name
Item(i, p, r) ==
    [dict |-> TRUE, id |-> i, parent_id |-> p, monthly_revenue |-> r, name |-> AbsentV]
Named(item, n) == [item EXCEPT !.name = n]
NotADict ==
    [dict |-> FALSE, id |-> AbsentV, parent_id |-> AbsentV, monthly_revenue |-> AbsentV,
     name |-> AbsentV]

ListV(items) == [t |-> "list", items |-> items]
TupleV(items) == [t |-> "tuple", items |-> items]
NoLenV == [t |-> "int", items |-> <<>>]

\* dict.get(key): an absent key reads as None
Get(item, field) == IF item[field].t = "absent" THEN NoneV ELSE item[field]

\* dict.get(key, default)
GetOr(item, field, default) == IF item[field].t = "absent" THEN default ELSE item[field]

----------------------------------------------------------------------------
(* Exact rational arithmetic standing for float arithmetic *)

Abs(x) == IF x < 0 THEN -x ELSE x

RECURSIVE GCD(_, _)
GCD(a, b) == IF b = 0 THEN a ELSE GCD(b, a % b)

Rat(n, d) == LET g == GCD(Abs(n), d) IN <<n \div g, d \div g>>
Zero == <<0, 1>>
RAdd(p, q) == Rat(p[1] * q[2] + q[1] * p[2], p[2] * q[2])
RSub(p, q) == Rat(p[1] * q[2] - q[1] * p[2], p[2] * q[2])
RMul(p, q) == Rat(p[1] * q[1], p[2] * q[2])

COMMISSION_RATE == Rat(5, 100)

safe_divide(numerator, denominator) ==
    IF denominator # 0 THEN Rat(numerator, denominator) ELSE Zero

\* round(value, 2): the number of hundredths nearest to value, ties to even
round_currency(value) ==
    LET n == 100 * value[1]
        d == value[2]
        f == n \div d
        r == n % d
    IN  IF 2 * r < d THEN f
        ELSE IF 2 * r > d THEN f + 1
        ELSE IF f % 2 = 0 THEN f ELSE f + 1

\* str(int): the decimal digits, most significant first
Digit(k) == <<"0", "1", "2", "3", "4", "5", "6", "7", "8", "9">>[k + 1]

RECURSIVE Digits(_)
Digits(n) == IF n < 10 THEN <<Digit(n)>> ELSE Append(Digits(n \div 10), Digit(n % 10))

str(i) == IF i < 0 THEN <<"-">> \o Digits(-i) ELSE Digits(i)

\* calendar.monthrange(year, month)[1]
IsLeap(y) == (y % 4 = 0) /\ ((y % 100 # 0) \/ (y % 400 = 0))
DaysInMonth(y, m) ==
    IF m = 2 THEN (IF IsLeap(y) THEN 29 ELSE 28)
    ELSE IF m \in {4, 6, 9, 11} THEN 30 ELSE 31

----------------------------------------------------------------------------
(* Node model and forest *)

\* variant: the constructor derives a profit from the revenue
Partner_with_profit(partner_id, parent_id, name, monthly_revenue) ==
    [id |-> partner_id, parent_id |-> parent_id, name |-> name,
     monthly_revenue |-> monthly_revenue,
     children |-> <<>>, daily_profit |-> Rat(monthly_revenue, 30), total_commission |-> Zero]

Partner(partner_id, parent_id, name, monthly_revenue) ==
    [id |-> partner_id, parent_id |-> parent_id, name |-> name,
     monthly_revenue |-> monthly_revenue,
     children |-> <<>>, daily_profit |-> Zero, total_commission |-> Zero]

\* variant: the child is not recorded
add_child_dropped(p, ix) == p

\* variant: the child is put in front of the list
add_child_in_front(p, ix) == [p EXCEPT !.children = <<ix>> \o @]

\* self.children.append(child), ix being the index of the child object
add_child(p, ix) == [p EXCEPT !.children = Append(@, ix)]

is_leaf(p) == Len(p.children) = 0
is_root(p) == p.parent_id.t = "none"

PartnerTree == [some |-> TRUE, objs |-> <<>>, keys |-> <<>>, partners |-> <<>>, roots |-> <<>>]
None == [some |-> FALSE, objs |-> <<>>, keys |-> <<>>, partners |-> <<>>, roots |-> <<>>]

HasKey(t, i) == \E k \in 1..Len(t.keys) : t.keys[k] = i

\* the object indices of partners.values(), in dict order
get_all_partners(t) == [k \in 1..Len(t.keys) |-> t.partners[t.keys[k]]]

size(t) == Len(t.keys)

\* variant: a partner whose id is already a key is not stored
add_partner_first_wins(t, p) ==
    LET ix == Len(t.objs) + 1
    IN  IF HasKey(t, p.id) THEN [t EXCEPT !.objs = Append(@, p)]
        ELSE [t EXCEPT
                !.objs = Append(@, p),
                !.keys = Append(@, p.id),
                !.partners = [i \in (DOMAIN @) \cup {p.id} |-> IF i = p.id THEN ix ELSE @[i]],
                !.roots = IF is_root(p) THEN Append(@, ix) ELSE @]

add_partner(t, p) ==
    LET ix == Len(t.objs) + 1
    IN  [t EXCEPT
           !.objs = Append(@, p),
           !.keys = IF HasKey(t, p.id) THEN @ ELSE Append(@, p.id),
           !.partners = [i \in (DOMAIN @) \cup {p.id} |-> IF i = p.id THEN ix ELSE @[i]],
           !.roots = IF is_root(p) THEN Append(@, ix) ELSE @]

----------------------------------------------------------------------------
(* Record validation *)

\* variant: the type of id is not checked
ItemInvalid_id_type_unchecked(item) ==
    \/ ~item.dict
    \/ item.id.t = "absent"
    \/ item.monthly_revenue.t = "absent"
    \/ item.monthly_revenue.t \notin {"int", "float"}

ItemInvalid(item) ==
    \/ ~item.dict
    \/ item.id.t = "absent"
    \/ item.monthly_revenue.t = "absent"
    \/ item.id.t # "int"
    \/ item.monthly_revenue.t \notin {"int", "float"}

validate_partner_data(d) ==
    IF d.t # "list" THEN "ValidationError"
    ELSE IF \E i \in 1..Len(d.items) : ItemInvalid(d.items[i]) THEN "ValidationError"
    ELSE "none"

----------------------------------------------------------------------------
(* Forest builder *)

RECURSIVE CreateFrom(_, _, _)
CreateFrom(items, k, t) ==
    IF k > Len(items) THEN t
    ELSE CreateFrom(items, k + 1,
            add_partner(t, Partner(items[k].id.v, Get(items[k], "parent_id"),
                                   GetOr(items[k], "name", NameV(0)),
                                   items[k].monthly_revenue.v)))

create_partners(d, t) == CreateFrom(d.items, 1, t)

NoInfo == <<>>

\* variant: the two ids are passed in the other order
parent_not_found_swapped(p) ==
    [err |-> "ParentNotFoundError", info |-> <<p.id, p.parent_id.v>>, tree |-> None]

\* raise ValueError(PARENT_NOT_FOUND.format(parent_id=..., partner_id=...))
parent_not_found(p) ==
    [err |-> "ParentNotFoundError", info |-> <<p.parent_id.v, p.id>>, tree |-> None]

RECURSIVE RelFrom(_, _)
RelFrom(t, k) ==
    IF k > Len(t.keys) THEN [err |-> "none", info |-> NoInfo, tree |-> t]
    ELSE LET ix == t.partners[t.keys[k]]
             p == t.objs[ix]
         IN  IF is_root(p) THEN RelFrom(t, k + 1)
             ELSE IF p.parent_id.t # "int" \/ ~HasKey(t, p.parent_id.v)
                  THEN parent_not_found(p)
                  ELSE LET px == t.partners[p.parent_id.v]
                       IN  RelFrom([t EXCEPT !.objs[px] = add_child(@, ix)], k + 1)

build_relationships(t) == RelFrom(t, 1)

build_from_data(d) ==
    IF validate_partner_data(d) # "none"
    THEN [err |-> "ValidationError", info |-> NoInfo, tree |-> None]
    ELSE build_relationships(create_partners(d, PartnerTree))

----------------------------------------------------------------------------
(* Structural validator *)

\* The while loop of _has_cycle_from_partner: cur is the object index of
\* current, path is visited_in_path, visited is self.visited.  links lists the
\* ids whose parent link the loop followed (current = tree.get_partner(...)
\* returning a partner), in order.
RECURSIVE WalkFrom(_, _, _, _)
WalkFrom(t, cur, path, visited) ==
    LET c == t.objs[cur]
    IN  IF c.id \in path THEN [cycle |-> TRUE, visited |-> visited, links |-> <<>>]
        ELSE IF c.parent_id.t = "none"
             THEN [cycle |-> FALSE, visited |-> visited \cup {c.id}, links |-> <<>>]
        ELSE IF c.parent_id.t # "int" \/ ~HasKey(t, c.parent_id.v)
             THEN [cycle |-> FALSE, visited |-> visited \cup {c.id}, links |-> <<>>]
        ELSE LET w == WalkFrom(t, t.partners[c.parent_id.v], path \cup {c.id},
                               visited \cup {c.id})
             IN  [w EXCEPT !.links = <<c.id>> \o @]

\* variant: the walk stops at any id of self.visited, not only at ids of this walk
has_cycle_from_partner_global(t, ix, visited) == WalkFrom(t, ix, visited, visited)

has_cycle_from_partner(t, ix, visited) == WalkFrom(t, ix, {}, visited)

\* The for loop of has_cycles from the k-th key on.  walks records, for every
\* call of _has_cycle_from_partner so far, the id it started from, self.visited
\* when it began and the links it followed.
RECURSIVE CyclesFrom(_, _, _, _)
CyclesFrom(t, k, visited, walks) ==
    IF k > Len(t.keys) THEN [err |-> "none", info |-> NoInfo, walks |-> walks]
    ELSE LET ix == t.partners[t.keys[k]]
         IN  IF t.objs[ix].id \in visited THEN CyclesFrom(t, k + 1, visited, walks)
             ELSE LET w == has_cycle_from_partner(t, ix, visited)
                      ws == Append(walks, [start |-> t.objs[ix].id, before |-> visited,
                                           after |-> w.visited, links |-> w.links])
                  IN  IF w.cycle
                      THEN [err |-> "CycleDetectedError", info |-> <<t.objs[ix].id>>,
                            walks |-> ws]
                      ELSE CyclesFrom(t, k + 1, w.visited, ws)

\* variant: self.visited keeps the ids of the previous call
clear_nothing(held) == held

\* self.visited.clear()
clear(held) == {}

\* variant: the error carries the parent of the partner the walk started from
has_cycles_carrying_parent(t) ==
    LET c == CyclesFrom(t, 1, clear(detector_visited), <<>>)
    IN  IF c.err = "none" THEN c
        ELSE [c EXCEPT !.info = <<t.objs[t.partners[c.info[1]]].parent_id.v>>]

has_cycles(t) == CyclesFrom(t, 1, clear(detector_visited), <<>>)

\* self.visited when has_cycles(t) has returned or raised
visited_after(t) ==
    LET c == has_cycles(t)
    IN  IF Len(c.walks) = 0 THEN clear(detector_visited) ELSE c.walks[Len(c.walks)].after

validate_has_roots(t) ==
    IF Len(t.roots) = 0 THEN [err |-> "NoRootError", info |-> NoInfo]
    ELSE [err |-> "none", info |-> NoInfo]

\* variant: the cycle check is left out
validate_without_cycle_check(t) == validate_has_roots(t)

\* variant: the root check runs first
validate_roots_first(t) ==
    LET r == validate_has_roots(t)
    IN  IF r.err # "none" THEN r
        ELSE [err |-> has_cycles(t).err, info |-> has_cycles(t).info]

validate(t) ==
    LET c == has_cycles(t)
    IN  IF c.err # "none" THEN [err |-> c.err, info |-> c.info] ELSE validate_has_roots(t)

----------------------------------------------------------------------------
(* Profit deriver *)

InMap(t, ix) == \E k \in 1..Len(t.keys) : t.partners[t.keys[k]] = ix

\* variant: the quotient is added to the previous daily_profit
new_daily_profit_accumulating(p, days_in_month) ==
    RAdd(p.daily_profit, safe_divide(p.monthly_revenue, days_in_month))

\* variant: every month is taken to have 30 days
new_daily_profit_thirty_days(p, days_in_month) == safe_divide(p.monthly_revenue, 30)

\* partner.daily_profit = MathUtils.safe_divide(partner.monthly_revenue, days_in_month)
new_daily_profit(p, days_in_month) == safe_divide(p.monthly_revenue, days_in_month)

calculate_daily_profits(t, target_date) ==
    LET days_in_month == DaysInMonth(target_date[1], target_date[2])
    IN  [t EXCEPT !.objs =
           [ix \in 1..Len(t.objs) |->
              IF InMap(t, ix)
              THEN [t.objs[ix] EXCEPT
                      !.daily_profit = new_daily_profit(t.objs[ix], days_in_month)]
              ELSE t.objs[ix]]]

----------------------------------------------------------------------------
(* Commission aggregator *)

\* variant: the derived profit is reset as well
reset_commissions_and_profits(t) ==
    [t EXCEPT !.objs =
       [ix \in 1..Len(t.objs) |->
          IF InMap(t, ix)
          THEN [t.objs[ix] EXCEPT !.total_commission = Zero, !.daily_profit = Zero]
          ELSE t.objs[ix]]]

reset_commissions(t) ==
    [t EXCEPT !.objs =
       [ix \in 1..Len(t.objs) |->
          IF InMap(t, ix) THEN [t.objs[ix] EXCEPT !.total_commission = Zero]
          ELSE t.objs[ix]]]

\* What the run of calculate_commissions does, in order: "reset" when
\* _reset_commissions assigns total_commission, "enter" when
\* _calculate_subtree_commission is called on an object, "assign" when it
\* assigns the object's total_commission.
Event(e, ix) == [e |-> e, ix |-> ix]

reset_events(t) == [k \in 1..Len(t.keys) |-> Event("reset", t.partners[t.keys[k]])]

\* variant: the partner's own profit is not subtracted
descendants_profit_with_own(subtree_profit, own_daily_profit) == subtree_profit

\* descendants_profit = subtree_profit - partner.daily_profit
descendants_profit(subtree_profit, own_daily_profit) == RSub(subtree_profit, own_daily_profit)

\* variant: the rate is not applied
commission_of_unscaled(descendants) == descendants

commission_of(descendants) == RMul(descendants, COMMISSION_RATE)

\* Both return [objs |-> the heap after the visit, profit |-> subtree_profit,
\* events |-> the events of the visit]
RECURSIVE calculate_subtree_commission(_, _), ChildrenFrom(_, _, _, _, _)
\* variant: subtree_profit is set to each child's profit, not increased by it
ChildrenFrom_overwriting(objs, children, k, acc, evs) ==
    IF k > Len(children) THEN [objs |-> objs, profit |-> acc, events |-> evs]
    ELSE LET c == calculate_subtree_commission(objs, children[k])
         IN  ChildrenFrom(c.objs, children, k + 1, c.profit, evs \o c.events)

ChildrenFrom(objs, children, k, acc, evs) ==
    IF k > Len(children) THEN [objs |-> objs, profit |-> acc, events |-> evs]
    ELSE LET c == calculate_subtree_commission(objs, children[k])
         IN  ChildrenFrom(c.objs, children, k + 1, RAdd(acc, c.profit), evs \o c.events)

\* variant: only the partner's own profit is returned to the parent
calculate_subtree_commission_children_only(objs, ix) ==
    LET r == ChildrenFrom(objs, objs[ix].children, 1, Zero, <<Event("enter", ix)>>)
        subtree_profit == RAdd(r.profit, r.objs[ix].daily_profit)
        desc == descendants_profit(subtree_profit, r.objs[ix].daily_profit)
    IN  [objs |-> [r.objs EXCEPT ![ix].total_commission = commission_of(desc)],
         profit |-> r.objs[ix].daily_profit,
         events |-> Append(r.events, Event("assign", ix))]

\* variant: the commission is assigned before the children are visited, from
\* the subtree_profit known by then
calculate_subtree_commission_preorder(objs, ix) ==
    LET desc == descendants_profit(objs[ix].daily_profit, objs[ix].daily_profit)
        assigned == [objs EXCEPT ![ix].total_commission = commission_of(desc)]
        r == ChildrenFrom(assigned, objs[ix].children, 1, Zero,
                          <<Event("enter", ix), Event("assign", ix)>>)
    IN  [objs |-> r.objs,
         profit |-> RAdd(r.profit, r.objs[ix].daily_profit),
         events |-> r.events]

calculate_subtree_commission(objs, ix) ==
    LET r == ChildrenFrom(objs, objs[ix].children, 1, Zero, <<Event("enter", ix)>>)
        subtree_profit == RAdd(r.profit, r.objs[ix].daily_profit)
        desc == descendants_profit(subtree_profit, r.objs[ix].daily_profit)
    IN  [objs |-> [r.objs EXCEPT ![ix].total_commission = commission_of(desc)],
         profit |-> subtree_profit,
         events |-> Append(r.events, Event("assign", ix))]

\* the loop over tree.get_roots(): the heap and the events after it
RECURSIVE RootsFrom(_, _, _, _)
RootsFrom(objs, roots, k, evs) ==
    IF k > Len(roots) THEN [objs |-> objs, events |-> evs]
    ELSE LET c == calculate_subtree_commission(objs, roots[k])
         IN  RootsFrom(c.objs, roots, k + 1, evs \o c.events)

\* variant: root partners are left out of the mapping
format_results_without_roots(t) ==
    [key \in {str(t.keys[k]) : k \in {k \in 1..Len(t.keys) :
                                        ~is_root(t.objs[t.partners[t.keys[k]]])}} |->
        LET i == CHOOSE i \in DOMAIN t.partners : str(i) = key
        IN  round_currency(t.objs[t.partners[i]].total_commission)]

\* variant: partners without a commission are left out of the mapping
format_results_of_earners(t) ==
    [key \in {str(t.keys[k]) : k \in {k \in 1..Len(t.keys) :
                                        t.objs[t.partners[t.keys[k]]].total_commission # Zero}} |->
        LET i == CHOOSE i \in DOMAIN t.partners : str(i) = key
        IN  round_currency(t.objs[t.partners[i]].total_commission)]

format_results(t) ==
    [key \in {str(t.keys[k]) : k \in 1..Len(t.keys)} |->
        LET i == CHOOSE i \in DOMAIN t.partners : str(i) = key
        IN  round_currency(t.objs[t.partners[i]].total_commission)]

\* the forest after calculate_commissions; its return value is format_results of it
calculate_commissions(t) ==
    LET t0 == reset_commissions(t)
    IN  [t0 EXCEPT !.objs = RootsFrom(t0.objs, t0.roots, 1, <<>>).objs]

\* the events of that run
calculate_commissions_events(t) ==
    LET t0 == reset_commissions(t)
    IN  RootsFrom(t0.objs, t0.roots, 1, reset_events(t)).events

----------------------------------------------------------------------------
(* Statistics reporter *)

Max(a, b) == IF a > b THEN a ELSE b

RECURSIVE calculate_depth_from_node(_, _, _), DepthFrom(_, _, _, _, _)
DepthFrom(objs, children, k, current_depth, max_child_depth) ==
    IF k > Len(children) THEN max_child_depth
    ELSE DepthFrom(objs, children, k + 1, current_depth,
            Max(max_child_depth, calculate_depth_from_node(objs, children[k], current_depth + 1)))

calculate_depth_from_node(objs, ix, current_depth) ==
    IF is_leaf(objs[ix]) THEN current_depth
    ELSE DepthFrom(objs, objs[ix].children, 1, current_depth, current_depth)

RECURSIVE MaxDepthFrom(_, _, _)
MaxDepthFrom(t, k, max_depth) ==
    IF k > Len(t.roots) THEN max_depth
    ELSE MaxDepthFrom(t, k + 1, Max(max_depth, calculate_depth_from_node(t.objs, t.roots[k], 0)))

calculate_max_depth(t) == MaxDepthFrom(t, 1, 0)

get_leaves(t) == {k \in 1..Len(t.keys) : is_leaf(t.objs[t.partners[t.keys[k]]])}

get_stats(t) ==
    [total_partners |-> size(t),
     root_partners |-> Len(t.roots),
     leaf_partners |-> Cardinality(get_leaves(t)),
     max_depth |-> calculate_max_depth(t)]

\* level_counts[level] = level_counts.get(level, 0) + 1
Bump(level_counts, level) ==
    [l \in (DOMAIN level_counts) \cup {level} |->
        IF l = level
        THEN (IF l \in DOMAIN level_counts THEN level_counts[l] ELSE 0) + 1
        ELSE level_counts[l]]

RECURSIVE count_partners_by_level(_, _, _, _), LevelsFrom(_, _, _, _, _)
LevelsFrom(objs, children, k, level, level_counts) ==
    IF k > Len(children) THEN level_counts
    ELSE LevelsFrom(objs, children, k + 1, level,
            count_partners_by_level(objs, children[k], level + 1, level_counts))

count_partners_by_level(objs, ix, level, level_counts) ==
    LevelsFrom(objs, objs[ix].children, 1, level, Bump(level_counts, level))

RECURSIVE LevelRootsFrom(_, _, _)
LevelRootsFrom(t, k, level_counts) ==
    IF k > Len(t.roots) THEN level_counts
    ELSE LevelRootsFrom(t, k + 1, count_partners_by_level(t.objs, t.roots[k], 0, level_counts))

get_level_distribution(t) == LevelRootsFrom(t, 1, <<>>)

----------------------------------------------------------------------------
(* Inputs *)

Parents == {NoneV} \cup {IntV(i) : i \in Ids} \cup {IntV(MissingId)}

ValidRecords(k) ==
    {Named(Item(IntV(i), p, IntV(RevenueAt(k))), NameV(k)) : i \in Ids, p \in Parents}

\* the five ways in which a record is invalid
InvalidRecords ==
    <<NotADict,
      Item(AbsentV, NoneV, IntV(3100)),
      Item(IntV(1), NoneV, AbsentV),
      Item(IntV(1), NoneV, StrV),
      Item(StrV, NoneV, IntV(3100))>>

\* the two of them explored at position k of a list: every way occurs at one
\* of the first three positions
InvalidRecordsAt(k) ==
    {InvalidRecords[((2 * k - 2) % Len(InvalidRecords)) + 1],
     InvalidRecords[((2 * k - 1) % Len(InvalidRecords)) + 1]}

\* the records explored at position k of a list
Records(k) ==
    ValidRecords(k) \cup InvalidRecordsAt(k) \cup {Item(IntV(1), AbsentV, IntV(RevenueAt(k)))}

\* the largest integer id of a list of records, 0 if it has none
RECURSIVE LargestId(_)
LargestId(items) ==
    IF Len(items) = 0 THEN 0
    ELSE LET r == items[Len(items)]
             m == LargestId(SubSeq(items, 1, Len(items) - 1))
         IN  IF r.id.t = "int" /\ r.id.v > m THEN r.id.v ELSE m

\* The records a caller may append to the list items it is assembling.  The
\* explored lists name their partners 1, 2, ... in the order in which the ids
\* first occur: a record repeats an earlier id or takes the next one.
NextRecords(items) ==
    {r \in Records(Len(items) + 1) : r.id.t = "int" => r.id.v <= LargestId(items) + 1}

\* arguments that are not lists
NonLists == {NoLenV, TupleV(<<>>)}

\* the arguments of a load_partners call on an engine that has been used before
ReloadInputs ==
    {NoLenV,
     ListV(<<>>),
     ListV(<<Item(IntV(1), NoneV, StrV)>>),
     ListV(<<Item(IntV(1), IntV(MissingId), IntV(3100))>>),
     ListV(<<Item(IntV(1), IntV(2), IntV(3100)), Item(IntV(2), IntV(1), IntV(1550))>>),
     ListV(<<Item(IntV(1), NoneV, IntV(3100)), Item(IntV(2), IntV(1), IntV(1550))>>)}

----------------------------------------------------------------------------------------------------------------------------------------------
(* CommissionEngine *)

NoResult == <<>>
NoData == ListV(<<>>)
NoDate == <<0, 0>>
NoFirst == [date |-> NoDate, out |-> NoResult, phase |-> "none"]

\* variant: cycles are looked for before the parents are resolved
load_body_cycles_first(cur, d) ==
    IF d.t # "list" THEN [err |-> "TypeError", info |-> NoInfo, tree |-> cur,
                          visited |-> detector_visited]
    ELSE IF Len(d.items) = 0 THEN [err |-> "ValidationError", info |-> NoInfo, tree |-> cur,
                                   visited |-> detector_visited]
    ELSE IF validate_partner_data(d) # "none"
         THEN [err |-> "ValidationError", info |-> NoInfo, tree |-> cur,
               visited |-> detector_visited]
    ELSE LET created == create_partners(d, PartnerTree)
             c == has_cycles(created)
             b == build_relationships(created)
         IN  IF c.err # "none" THEN [err |-> c.err, info |-> c.info, tree |-> created,
                                     visited |-> visited_after(created)]
             ELSE IF b.err # "none" THEN [err |-> b.err, info |-> b.info, tree |-> cur,
                                          visited |-> detector_visited]
             ELSE LET v == validate(b.tree)
                  IN  [err |-> v.err, info |-> v.info, tree |-> b.tree,
                       visited |-> visited_after(b.tree)]

\* the body of the try block of load_partners: the error raised, if any, the
\* value of self.tree when the body ends, cur being its value at entry, and
\* the visited set of the validator's cycle detector when the body ends
load_body(cur, d) ==
    IF d.t = "int" THEN [err |-> "TypeError", info |-> NoInfo, tree |-> cur,
                         visited |-> detector_visited]
    ELSE IF d.t # "list" THEN [err |-> "TypeError", info |-> NoInfo, tree |-> cur,
                               visited |-> detector_visited]
    ELSE IF Len(d.items) = 0 THEN [err |-> "ValidationError", info |-> NoInfo, tree |-> cur,
                                   visited |-> detector_visited]
    ELSE IF validate_partner_data(d) # "none"
         THEN [err |-> "ValidationError", info |-> NoInfo, tree |-> cur,
               visited |-> detector_visited]
    ELSE LET b == build_from_data(d)
         IN  IF b.err # "none" THEN [err |-> b.err, info |-> b.info, tree |-> cur,
                                     visited |-> detector_visited]
             ELSE LET v == validate(b.tree)
                  IN  [err |-> v.err, info |-> v.info, tree |-> b.tree,
                       visited |-> visited_after(b.tree)]

\* variant: the except clause leaves self.tree as it is
on_load_error_keeps(t) == t

\* the except clause of load_partners: self.tree = None
on_load_error(t) == None

LoadPartners(d) ==
    LET out == load_body(tree, d)
    IN  /\ tree' = IF out.err # "none" THEN on_load_error(out.tree) ELSE out.tree
        /\ op' = "load_partners"
        /\ err' = out.err
        /\ info' = out.info
        /\ result' = NoResult
        /\ data' = d
        /\ date' = NoDate
        /\ first' = NoFirst
        /\ was_loaded' = tree.some
        /\ events' = <<>>
        /\ detector_visited' = out.visited

is_loaded == tree.some

\* variant: the check never raises
ensure_tree_loaded_never(t) == "none"

ensure_tree_loaded(t) == IF ~t.some THEN "NotLoadedError" ELSE "none"

\* an operation that raises e and changes nothing
Raise(name, e) ==
    /\ op' = name
    /\ err' = e
    /\ info' = NoInfo
    /\ result' = NoResult
    /\ was_loaded' = tree.some
    /\ data' = IF tree.some THEN data ELSE NoData
    /\ events' = <<>>
    /\ UNCHANGED <<tree, date, first, detector_visited>>

\* an operation that returns r and leaves the forest t
Return(name, t, r) ==
    /\ tree' = t
    /\ op' = name
    /\ err' = "none"
    /\ info' = NoInfo
    /\ result' = r
    /\ was_loaded' = tree.some
    /\ data' = IF t.some THEN data ELSE NoData
    /\ UNCHANGED detector_visited

\* calculate_daily_profits(target_date), the record of the runs left open
CalculateDailyProfitsCall(target_date) ==
    LET e == ensure_tree_loaded(tree)
    IN  IF e # "none" THEN Raise("calculate_daily_profits", e)
        ELSE /\ Return("calculate_daily_profits",
                       calculate_daily_profits(tree, target_date), NoResult)
             /\ date' = target_date
             /\ events' = <<>>

CalculateDailyProfits(target_date) ==
    CalculateDailyProfitsCall(target_date) /\ UNCHANGED first

\* calculate_commissions(), the record of the runs left open
CalculateCommissionsCall ==
    LET e == ensure_tree_loaded(tree)
    IN  IF e # "none" THEN Raise("calculate_commissions", e)
        ELSE LET t == calculate_commissions(tree)
             IN  /\ Return("calculate_commissions", t, format_results(t))
                 /\ events' = calculate_commissions_events(tree)
                 /\ UNCHANGED date

CalculateCommissions == CalculateCommissionsCall /\ UNCHANGED first

GetStats ==
    LET e == ensure_tree_loaded(tree)
    IN  IF e # "none" THEN Raise("get_stats", e)
        ELSE /\ Return("get_stats", tree, get_stats(tree))
             /\ events' = <<>>
             /\ UNCHANGED <<date, first>>

GetLevelDistribution ==
    LET e == ensure_tree_loaded(tree)
    IN  IF e # "none" THEN Raise("get_level_distribution", e)
        ELSE /\ Return("get_level_distribution", tree, get_level_distribution(tree))
             /\ events' = <<>>
             /\ UNCHANGED <<date, first>>

Reset ==
    /\ Return("reset", None, NoResult)
    /\ date' = NoDate
    /\ first' = NoFirst
    /\ events' = <<>>

Init ==
    /\ tree = None
    /\ op = "new"
    /\ err = "none"
    /\ info = NoInfo
    /\ result = NoResult
    /\ data = NoData
    /\ date = NoDate
    /\ first = NoFirst
    /\ was_loaded = FALSE
    /\ events = <<>>
    /\ detector_visited = {}

\* The caller of a new engine assembles a list of at most MaxRecords records
\* in data, one record at a time, before its first call.
AppendRecord ==
    /\ op = "new"
    /\ Len(data.items) < MaxRecords
    /\ \E r \in NextRecords(data.items) : data' = ListV(Append(data.items, r))
    /\ UNCHANGED <<tree, op, err, info, result, date, first, was_loaded, events,
                   detector_visited>>

\* The first call of load_partners on a new engine takes the assembled list or
\* a value that is not a list; later calls range over ReloadInputs.
LoadFirst == op = "new" /\ \E d \in {data} \cup NonLists : LoadPartners(d)
Reload == \E d \in ReloadInputs : LoadPartners(d)
DailyProfits == \E d \in Dates : CalculateDailyProfits(d)

Next ==
    \/ AppendRecord
    \/ LoadFirst
    \/ Reload
    \/ DailyProfits
    \/ CalculateCommissions
    \/ GetStats
    \/ GetLevelDistribution
    \/ Reset

Spec == Init /\ [][Next]_vars

----------------------------------------------------------------------------
(* The builder and the validator used on their own: tree holds the forest   *)
(* build_from_data returned, None if it raised.                            *)

BuildFromData(d) ==
    LET b == build_from_data(d)
    IN  /\ tree' = b.tree
        /\ op' = "build_from_data"
        /\ err' = b.err
        /\ info' = b.info
        /\ result' = NoResult
        /\ data' = d
        /\ UNCHANGED <<date, first, was_loaded, events, detector_visited>>

Validate ==
    /\ op = "build_from_data"
    /\ err = "none"
    /\ LET v == validate(tree)
       IN  /\ op' = "validate"
           /\ err' = v.err
           /\ info' = v.info
    /\ detector_visited' = visited_after(tree)
    /\ UNCHANGED <<tree, result, data, date, first, was_loaded, events>>

Build == op = "new" /\ \E d \in {data} \cup NonLists : BuildFromData(d)

NextBuilder ==
    \/ AppendRecord
    \/ Build
    \/ Validate

SpecBuilder == Init /\ [][NextBuilder]_vars

----------------------------------------------------------------------------
(* OriginalCommissionEngine: the engine before the refactoring, one class    *)
(* holding partners, roots, visited and rec_stack.  Its state is a record    *)
(* like a PartnerTree.                                                       *)

OriginalPartner(partner_id, parent_id, name, monthly_revenue) ==
    [id |-> partner_id, parent_id |-> parent_id, name |-> name,
     monthly_revenue |-> monthly_revenue,
     children |-> <<>>, daily_profit |-> Zero, total_commission |-> Zero]

\* the first loop of load_partners: self.partners[partner.id] = partner
RECURSIVE OriginalCreateFrom(_, _, _)
OriginalCreateFrom(items, k, t) ==
    IF k > Len(items) THEN t
    ELSE LET p == OriginalPartner(items[k].id.v, Get(items[k], "parent_id"),
                                  GetOr(items[k], "name", NameV(0)),
                                  items[k].monthly_revenue.v)
             ix == Len(t.objs) + 1
         IN  OriginalCreateFrom(items, k + 1,
                [t EXCEPT
                   !.objs = Append(@, p),
                   !.keys = IF HasKey(t, p.id) THEN @ ELSE Append(@, p.id),
                   !.partners = [i \in (DOMAIN @) \cup {p.id} |->
                                    IF i = p.id THEN ix ELSE @[i]]])

\* the second loop of load_partners: roots and children
RECURSIVE OriginalRelFrom(_, _)
OriginalRelFrom(t, k) ==
    IF k > Len(t.keys) THEN [err |-> "none", info |-> NoInfo, tree |-> t]
    ELSE LET ix == t.partners[t.keys[k]]
             p == t.objs[ix]
         IN  IF p.parent_id.t = "none"
             THEN OriginalRelFrom([t EXCEPT !.roots = Append(@, ix)], k + 1)
             ELSE IF p.parent_id.t # "int" \/ ~HasKey(t, p.parent_id.v)
                  THEN [err |-> "ParentNotFoundError", info |-> <<p.parent_id.v, p.id>>,
                        tree |-> t]
                  ELSE LET px == t.partners[p.parent_id.v]
                       IN  OriginalRelFrom(
                              [t EXCEPT !.objs[px].children = Append(@, ix)], k + 1)

\* _has_cycle_util: the loop over partner.children from the k-th child on,
\* partner.id being in visited and in rec_stack
RECURSIVE original_has_cycle_util(_, _, _, _), OriginalChildrenFrom(_, _, _, _, _)
OriginalChildrenFrom(t, ix, k, visited, rec_stack) ==
    IF k > Len(t.objs[ix].children)
    THEN [cycle |-> FALSE, visited |-> visited, rec_stack |-> rec_stack \ {t.objs[ix].id}]
    ELSE LET cx == t.objs[ix].children[k]
             child == t.objs[cx]
         IN  IF child.id \notin visited
             THEN LET r == original_has_cycle_util(t, cx, visited, rec_stack)
                  IN  IF r.cycle THEN r
                      ELSE OriginalChildrenFrom(t, ix, k + 1, r.visited, r.rec_stack)
             ELSE IF child.id \in rec_stack
                  THEN [cycle |-> TRUE, visited |-> visited, rec_stack |-> rec_stack]
                  ELSE OriginalChildrenFrom(t, ix, k + 1, visited, rec_stack)

original_has_cycle_util(t, ix, visited, rec_stack) ==
    OriginalChildrenFrom(t, ix, 1, visited \cup {t.objs[ix].id},
                         rec_stack \cup {t.objs[ix].id})

\* the loop of _detect_cycles from the k-th key on
RECURSIVE OriginalCyclesFrom(_, _, _, _)
OriginalCyclesFrom(t, k, visited, rec_stack) ==
    IF k > Len(t.keys) THEN [err |-> "none", info |-> NoInfo]
    ELSE LET ix == t.partners[t.keys[k]]
         IN  IF t.objs[ix].id \in visited
             THEN OriginalCyclesFrom(t, k + 1, visited, rec_stack)
             ELSE LET r == original_has_cycle_util(t, ix, visited, rec_stack)
                  IN  IF r.cycle
                      THEN [err |-> "CycleDetectedError", info |-> <<t.objs[ix].id>>]
                      ELSE OriginalCyclesFrom(t, k + 1, r.visited, r.rec_stack)

original_detect_cycles(t) == OriginalCyclesFrom(t, 1, {}, {})

\* load_partners on a new OriginalCommissionEngine
original_load_partners(d) ==
    LET b == OriginalRelFrom(OriginalCreateFrom(d.items, 1, PartnerTree), 1)
        c == original_detect_cycles(b.tree)
    IN  IF b.err # "none" THEN b
        ELSE IF c.err # "none" THEN [err |-> c.err, info |-> c.info, tree |-> b.tree]
        ELSE IF Len(b.tree.roots) = 0
             THEN [err |-> "NoRootError", info |-> NoInfo, tree |-> b.tree]
        ELSE [err |-> "none", info |-> NoInfo, tree |-> b.tree]

\* partner.daily_profit = partner.monthly_revenue / days_in_month
original_calculate_daily_profits(t, target_date) ==
    LET days_in_month == DaysInMonth(target_date[1], target_date[2])
    IN  [t EXCEPT !.objs =
           [ix \in 1..Len(t.objs) |->
              IF InMap(t, ix)
              THEN [t.objs[ix] EXCEPT !.daily_profit = Rat(t.objs[ix].monthly_revenue,
                                                          days_in_month)]
              ELSE t.objs[ix]]]

\* Both return [objs |-> the heap after the visit, profit |-> subtree_profit]
RECURSIVE original_calculate_subtree_commission(_, _), OriginalSubtreesFrom(_, _, _, _)
OriginalSubtreesFrom(objs, children, k, subtree_profit) ==
    IF k > Len(children) THEN [objs |-> objs, profit |-> subtree_profit]
    ELSE LET c == original_calculate_subtree_commission(objs, children[k])
         IN  OriginalSubtreesFrom(c.objs, children, k + 1, RAdd(subtree_profit, c.profit))

original_calculate_subtree_commission(objs, ix) ==
    LET r == OriginalSubtreesFrom(objs, objs[ix].children, 1, Zero)
        subtree_profit == RAdd(r.profit, r.objs[ix].daily_profit)
        descendants == RSub(subtree_profit, r.objs[ix].daily_profit)
    IN  [objs |-> [r.objs EXCEPT ![ix].total_commission = RMul(descendants, Rat(5, 100))],
         profit |-> subtree_profit]

RECURSIVE OriginalRootsFrom(_, _, _)
OriginalRootsFrom(objs, roots, k) ==
    IF k > Len(roots) THEN objs
    ELSE OriginalRootsFrom(original_calculate_subtree_commission(objs, roots[k]).objs,
                           roots, k + 1)

\* calculate_commissions: the mapping it returns (round is round_currency)
original_calculate_commissions(t) ==
    LET zeroed == [ix \in 1..Len(t.objs) |->
                      IF InMap(t, ix) THEN [t.objs[ix] EXCEPT !.total_commission = Zero]
                      ELSE t.objs[ix]]
        objs == OriginalRootsFrom(zeroed, t.roots, 1)
    IN  [key \in {str(t.keys[k]) : k \in 1..Len(t.keys)} |->
            LET i == CHOOSE i \in DOMAIN t.partners : str(i) = key
            IN  round_currency(objs[t.partners[i]].total_commission)]

----------------------------------------------------------------------------
(* The profit deriver over the calendar: a list is loaded into a new engine *)
(* and calculate_daily_profits is called with reference dates of common,    *)
(* leap and century years.                                                  *)

CalendarYears == {1900, 2000, 2023, 2024}
CalendarMonths == 1..12
CalendarDates == {<<y, m>> : y \in CalendarYears, m \in CalendarMonths}

DailyProfitsOfCalendar == \E d \in CalendarDates : CalculateDailyProfits(d)

NextDeriver ==
    \/ AppendRecord
    \/ LoadFirst
    \/ DailyProfitsOfCalendar

SpecDeriver == Init /\ [][NextDeriver]_vars

----------------------------------------------------------------------------
(* The two passes called again and again on one forest, with a record of   *)
(* the first output of calculate_commissions and of the runs after it.     *)

DailyProfitsRecorded ==
    \E d \in Dates :
        /\ CalculateDailyProfitsCall(d)
        /\ first' = IF first.phase = "first" /\ first.date = d
                    THEN [first EXCEPT !.phase = "derived_again"]
                    ELSE first

CalculateCommissionsRecorded ==
    /\ CalculateCommissionsCall
    /\ first' = IF ~is_loaded THEN first
                ELSE IF first.phase = "none"
                THEN [date |-> date, out |-> format_results(calculate_commissions(tree)),
                      phase |-> "first"]
                ELSE IF first.phase = "derived_again" /\ first.date = date
                THEN [first EXCEPT !.phase = "rerun"]
                ELSE first

NextRerun ==
    \/ AppendRecord
    \/ LoadFirst
    \/ DailyProfitsRecorded
    \/ CalculateCommissionsRecorded

SpecRerun == Init /\ [][NextRerun]_vars

----------------------------------------------------------------------------
(* The components called one by one on the forest build_from_data returned, *)
(* without the validator in between.                                       *)

\* a component call that leaves the forest t and returns r
ComponentCall(name, t, r, ev) ==
    /\ tree.some
    /\ op # "new"
    /\ tree' = t
    /\ op' = name
    /\ result' = r
    /\ events' = ev
    /\ UNCHANGED <<err, info, data, first, was_loaded, detector_visited>>

DailyProfitCalculator ==
    \E d \in Dates :
        /\ ComponentCall("DailyProfitCalculator.calculate_daily_profits",
                         calculate_daily_profits(tree, d), NoResult, <<>>)
        /\ date' = d

CommissionCalculator ==
    /\ ComponentCall("CommissionCalculator.calculate_commissions",
                     calculate_commissions(tree),
                     format_results(calculate_commissions(tree)),
                     calculate_commissions_events(tree))
    /\ UNCHANGED date

TreeStatisticsStats ==
    /\ ComponentCall("TreeStatistics.get_stats", tree, get_stats(tree), <<>>)
    /\ UNCHANGED date

TreeStatisticsLevels ==
    /\ ComponentCall("TreeStatistics.get_level_distribution", tree,
                     get_level_distribution(tree), <<>>)
    /\ UNCHANGED date

NextComponents ==
    \/ AppendRecord
    \/ Build
    \/ DailyProfitCalculator
    \/ CommissionCalculator
    \/ TreeStatisticsStats
    \/ TreeStatisticsLevels

SpecComponents == Init /\ [][NextComponents]_vars

----------------------------------------------------------------------------
(* The aggregation over lists with and without a negative revenue: where   *)
(* the k-th value of Revenues is negative, the k-th record carries it or   *)
(* the value after it, so that lists of MaxRecords records without a       *)
(* negative revenue are among the explored ones.                           *)

RecordsOfRevenue(items) ==
    LET k == Len(items) + 1
    IN  {Named(Item(IntV(i), p, IntV(r)), NameV(k)) :
            i \in {i \in Ids : i <= LargestId(items) + 1},
            p \in Parents,
            r \in IF RevenueAt(k) < 0 THEN {RevenueAt(k), RevenueAt(k + 1)}
                  ELSE {RevenueAt(k)}}

AppendRecordOfRevenue ==
    /\ op = "new"
    /\ Len(data.items) < MaxRecords
    /\ \E r \in RecordsOfRevenue(data.items) : data' = ListV(Append(data.items, r))
    /\ UNCHANGED <<tree, op, err, info, result, date, first, was_loaded, events,
                   detector_visited>>

NextAggregator ==
    \/ AppendRecordOfRevenue
    \/ LoadFirst
    \/ DailyProfits
    \/ CalculateCommissions

SpecAggregator == Init /\ [][NextAggregator]_vars

----------------------------------------------------------------------------
(* The two ways to a validated forest side by side: a list is given to     *)
(* load_partners of a new engine, or to the builder and then the validator. *)

NextLoader ==
    \/ AppendRecord
    \/ LoadFirst
    \/ Build
    \/ Validate

SpecLoader == Init /\ [][NextLoader]_vars

----------------------------------------------------------------------------
(* Notions the properties are stated with, defined from the parent_id links  *)
(* of the forest and from the input records, not from the traversals.       *)

NodeIds(t) == {t.keys[k] : k \in 1..Len(t.keys)}
NodeOf(t, i) == t.objs[t.partners[i]]

HasParent(t, i) == NodeOf(t, i).parent_id.t = "int" /\ NodeOf(t, i).parent_id.v \in NodeIds(t)

\* the ids one parent link above the ids of S
Up(t, S) == {NodeOf(t, j).parent_id.v : j \in {j \in S : HasParent(t, j)}}

RECURSIVE UpWithin(_, _, _)
UpWithin(t, S, n) == IF n = 0 THEN {} ELSE Up(t, S) \cup UpWithin(t, Up(t, S), n - 1)

\* the ids reachable from i by one or more parent links
Ancestors(t, i) == UpWithin(t, {i}, Cardinality(NodeIds(t)))
Descendants(t, i) == {j \in NodeIds(t) : i \in Ancestors(t, j)}
ChildIds(t, i) == {j \in NodeIds(t) : HasParent(t, j) /\ NodeOf(t, j).parent_id.v = i}
HasParentCycle(t) == \E i \in NodeIds(t) : i \in Ancestors(t, i)

RECURSIVE SumProfit(_, _)
SumProfit(t, S) ==
    IF S = {} THEN Zero
    ELSE LET j == CHOOSE j \in S : TRUE
         IN  RAdd(NodeOf(t, j).daily_profit, SumProfit(t, S \ {j}))

\* The same, read off the input records: the record that counts for an id
RecordIds(d) == {d.items[k].id.v : k \in 1..Len(d.items)}
LastIndex(d, i) == CHOOSE k \in 1..Len(d.items) :
                      /\ d.items[k].id.v = i
                      /\ \A m \in k + 1..Len(d.items) : d.items[m].id.v # i
LastRecord(d, i) == d.items[LastIndex(d, i)]
DeclaresParent(r) == r.parent_id.t = "int"
RecordUp(d, S) ==
    {LastRecord(d, j).parent_id.v :
        j \in {j \in S : DeclaresParent(LastRecord(d, j))
                         /\ LastRecord(d, j).parent_id.v \in RecordIds(d)}}

RECURSIVE RecordUpWithin(_, _, _)
RecordUpWithin(d, S, n) ==
    IF n = 0 THEN {} ELSE RecordUp(d, S) \cup RecordUpWithin(d, RecordUp(d, S), n - 1)

RecordCycle(d) == \E i \in RecordIds(d) : i \in RecordUpWithin(d, {i}, Len(d.items))

Commissions == op = "calculate_commissions" /\ err = "none"

----------------------------------------------------------------------------
(* C1 *)

----------------------------------------------------------------------------
(* C2 *)

\* C2 as stated: the output has exactly one entry per input record, so as many
\* entries as records, and every record's id is a key.
C2_OneEntryPerRecord ==
    Commissions =>
        /\ Cardinality(DOMAIN result) = Len(data.items)
        /\ \A k \in 1..Len(data.items) : str(data.items[k].id.v) \in DOMAIN result

\* C2 amended: the output has exactly one entry per distinct id of the input
\* records, keyed by the id as a string, and every record's id is a key.
C2_OneEntryPerDistinctId ==
    Commissions =>
        /\ DOMAIN result = {str(i) : i \in RecordIds(data)}
        /\ Cardinality(DOMAIN result) = Cardinality(RecordIds(data))

\* three records, two of them with the same id, loaded and aggregated
C2_Witness ==
    /\ Commissions
    /\ Len(data.items) = 3
    /\ Cardinality(RecordIds(data)) = 2
    /\ Cardinality(DOMAIN result) = 2

----------------------------------------------------------------------------
(* C3 *)

PastBuilder == op = "load_partners" /\ err \in {"none", "CycleDetectedError", "NoRootError"}

\* C3: for an input that passes the builder, load_partners fails with
\* CycleDetectedError exactly when some id is reachable from itself by one or
\* more parent_id links.
C3_CycleIffReachableFromItself ==
    PastBuilder => (err = "CycleDetectedError" <=> RecordCycle(data))

\* a self-referencing record among three records is reported as a cycle
C3_Witness ==
    /\ op = "load_partners"
    /\ err = "CycleDetectedError"
    /\ Len(data.items) = 3
    /\ Cardinality(RecordIds(data)) = 3
    /\ \E i \in RecordIds(data) :
          /\ LastRecord(data, i).parent_id = IntV(i)
          /\ \A j \in RecordIds(data) \ {i} : j \notin RecordUpWithin(data, {j}, 3)

----------------------------------------------------------------------------
(* C4 *)

\* C4: after a load_partners that failed, for whatever reason, the engine holds
\* no forest.
C4_FailedLoadUnloads ==
    (op = "load_partners" /\ err # "none") => ~is_loaded

\* a load that failed on an engine that held a forest
C4_Witness ==
    /\ op = "load_partners"
    /\ err = "ParentNotFoundError"
    /\ was_loaded
    /\ ~is_loaded

----------------------------------------------------------------------------
(* C5 *)

QueryOps == {"calculate_daily_profits", "calculate_commissions", "get_stats",
             "get_level_distribution"}

\* C5: each of the four operations, called while no forest is loaded, fails
\* with NotLoadedError and leaves the engine unloaded.
C5_NotLoadedError ==
    (op \in QueryOps /\ ~was_loaded) => (err = "NotLoadedError" /\ ~is_loaded)

\* get_level_distribution refused on an engine without forest
C5_Witness ==
    /\ op = "get_level_distribution"
    /\ err = "NotLoadedError"
    /\ ~was_loaded
    /\ ~is_loaded

----------------------------------------------------------------------------
(* C6 *)

Built == op = "build_from_data"

\* the error names a missing parent id and an orphan id: the record that counts
\* for the orphan declares that parent, and no record has the parent's id
PairNamesOrphan ==
    /\ Len(info) = 2
    /\ info[1] \notin RecordIds(data)
    /\ info[2] \in RecordIds(data)
    /\ LastRecord(data, info[2]).parent_id = IntV(info[1])

\* C6 as stated: when any record declares a parent_id that is the id of no
\* record, building fails with ParentNotFoundError carrying such a pair.
C6_AnyRecordWithMissingParent ==
    (/\ Built
     /\ err # "ValidationError"
     /\ \E k \in 1..Len(data.items) :
           /\ DeclaresParent(data.items[k])
           /\ data.items[k].parent_id.v \notin RecordIds(data))
    => (err = "ParentNotFoundError" /\ PairNamesOrphan)

\* C6 amended: when the last record of some id declares a parent_id that is the
\* id of no record, building fails with ParentNotFoundError carrying a pair
\* (missing parent id, orphan id) such that the last record of the orphan's id
\* declares that parent id and no record has it.
C6_LastRecordWithMissingParent ==
    (/\ Built
     /\ err # "ValidationError"
     /\ \E i \in RecordIds(data) :
           /\ DeclaresParent(LastRecord(data, i))
           /\ LastRecord(data, i).parent_id.v \notin RecordIds(data))
    => (err = "ParentNotFoundError" /\ PairNamesOrphan)

\* a root, its child and an orphan whose parent 999 is missing
C6_Witness ==
    /\ Built
    /\ err = "ParentNotFoundError"
    /\ Len(data.items) = 3
    /\ Cardinality(RecordIds(data)) = 3
    /\ info = <<MissingId, 3>>
    /\ \E i \in RecordIds(data) : LastRecord(data, i).parent_id.t = "none"

----------------------------------------------------------------------------
(* C7 *)

\* C7: the validator checks cycles before roots: a built forest with a cycle
\* and no root fails with CycleDetectedError, and NoRootError is raised only
\* for a forest without cycle and without root.
C7_CycleBeforeNoRoot ==
    op = "validate" =>
        /\ (HasParentCycle(tree) /\ Len(tree.roots) = 0) => err = "CycleDetectedError"
        /\ err = "NoRootError" => (~HasParentCycle(tree) /\ Len(tree.roots) = 0)

\* a forest of three nodes, all on cycles, no root
C7_Witness ==
    /\ op = "validate"
    /\ err = "CycleDetectedError"
    /\ Len(tree.roots) = 0
    /\ Cardinality(NodeIds(tree)) = 3
    /\ \A i \in NodeIds(tree) : i \in Ancestors(tree, i)

----------------------------------------------------------------------------
(* C8 *)

\* a record without an integer id or without a numeric monthly_revenue
BadRecord(r) == r.id.t # "int" \/ r.monthly_revenue.t \notin {"int", "float"}

\* C8 as stated: the builder fails with ValidationError, and returns no forest,
\* if the input is not a sequence, is empty, or holds such a record.
C8_BuilderRejectsEmpty ==
    (/\ Built
     /\ \/ data.t # "list"
        \/ Len(data.items) = 0
        \/ \E k \in 1..Len(data.items) : BadRecord(data.items[k]))
    => (err = "ValidationError" /\ ~tree.some)

\* C8 amended: the builder fails with ValidationError, and returns no forest,
\* if the input is not a list or holds such a record; for an empty list it
\* raises nothing and returns the empty forest.
C8_BuilderValidation ==
    Built =>
        /\ (\/ data.t # "list"
            \/ \E k \in 1..Len(data.items) : BadRecord(data.items[k]))
           => (err = "ValidationError" /\ ~tree.some)
        /\ data = ListV(<<>>) => (err = "none" /\ tree = PartnerTree)

\* two well-formed records followed by a record with a non-integer id
C8_Witness ==
    /\ Built
    /\ err = "ValidationError"
    /\ ~tree.some
    /\ Len(data.items) = 3
    /\ ~BadRecord(data.items[1])
    /\ ~BadRecord(data.items[2])
    /\ data.items[3].id = StrV

----------------------------------------------------------------------------
(* C9 *)

\* C9: every leaf, a lone root included, has commission 0 in the output.
C9_LeafCommissionZero ==
    Commissions =>
        \A i \in NodeIds(tree) : is_leaf(NodeOf(tree, i)) => result[str(i)] = 0

\* a lone root with a profit beside a root that earns on its child
C9_Witness ==
    /\ Commissions
    /\ date # NoDate
    /\ \E i, j \in NodeIds(tree) :
          /\ is_leaf(NodeOf(tree, i))
          /\ is_root(NodeOf(tree, i))
          /\ NodeOf(tree, i).daily_profit # Zero
          /\ result[str(i)] = 0
          /\ result[str(j)] # 0

----------------------------------------------------------------------------
(* C10 *)

\* C10: whenever calculate_commissions runs on a forest whose profits were
\* derived for the reference date of its first run, the output is the output
\* of that first run.
C10_Idempotent ==
    (Commissions /\ first.phase # "none" /\ first.date = date) => result = first.out

\* calculate_daily_profits and calculate_commissions have both run a second
\* time with the date of the first run, and some commission is not zero
C10_Witness ==
    /\ Commissions
    /\ first.phase = "rerun"
    /\ date # NoDate
    /\ first.date = date
    /\ \E key \in DOMAIN result : result[key] # 0

----------------------------------------------------------------------------
(* C11 *)

Loaded == op = "load_partners" /\ err = "none"

\* the ids of the objects in the children list of the node stored under i
ChildListIds(t, i) ==
    {t.objs[NodeOf(t, i).children[k]].id : k \in 1..Len(NodeOf(t, i).children)}

\* C11: after a successful load_partners, the children list of every node n of
\* the id->node mapping holds exactly the nodes of the mapping whose parent_id
\* is n.id, each once, and the parent_id of every non-root node is the id of a
\* node of the mapping whose children list holds it.
C11_ChildrenMatchParentLinks ==
    Loaded =>
        /\ \A i \in NodeIds(tree) :
              LET ch == NodeOf(tree, i).children
              IN  /\ \A k \in 1..Len(ch) : InMap(tree, ch[k])
                  /\ \A k, m \in 1..Len(ch) : ch[k] = ch[m] => k = m
                  /\ ChildListIds(tree, i) =
                        {j \in NodeIds(tree) : NodeOf(tree, j).parent_id = IntV(i)}
        /\ \A j \in NodeIds(tree) :
              ~is_root(NodeOf(tree, j)) =>
                  /\ NodeOf(tree, j).parent_id.t = "int"
                  /\ NodeOf(tree, j).parent_id.v \in NodeIds(tree)
                  /\ \E k \in 1..Len(NodeOf(tree, NodeOf(tree, j).parent_id.v).children) :
                        NodeOf(tree, NodeOf(tree, j).parent_id.v).children[k] = tree.partners[j]

\* a loaded forest in which one node has two children and the record of one of
\* them comes before the record of the parent
C11_Witness ==
    /\ Loaded
    /\ \E i \in NodeIds(tree) :
          /\ Len(NodeOf(tree, i).children) = 2
          /\ \E k \in 1..2 : NodeOf(tree, i).children[k] < tree.partners[i]

----------------------------------------------------------------------------
(* C12 *)

BuiltForest == op = "build_from_data" /\ err = "none"

\* the object indices of seq increase: an object's index is the position of
\* its record in the input
InRecordOrder(seq) == \A k, m \in 1..Len(seq) : k < m => seq[k] < seq[m]

\* C12: in a built forest, roots lists exactly the nodes with no parent_id, in
\* the order of their records, and every children list is in the order of the
\* children's records.
C12_RootsAndChildrenInRecordOrder ==
    BuiltForest =>
        /\ InRecordOrder(tree.roots)
        /\ {tree.roots[k] : k \in 1..Len(tree.roots)} =
              {tree.partners[i] : i \in {i \in NodeIds(tree) : is_root(NodeOf(tree, i))}}
        /\ \A i \in NodeIds(tree) : InRecordOrder(NodeOf(tree, i).children)

----------------------------------------------------------------------------
(* C13 *)

\* the calendar, stated on its own: the lengths of the months of a common
\* year, February having one day more in the years divisible by 4 that are
\* not century years and in the years divisible by 400
MonthLengths == <<31, 28, 31, 30, 31, 30, 31, 31, 30, 31, 30, 31>>
LeapYear(y) == (y % 400 = 0) \/ (y % 4 = 0 /\ y % 100 # 0)
CalendarDays(d) == IF d[2] = 2 /\ LeapYear(d[1]) THEN 29 ELSE MonthLengths[d[2]]

Derived == op = "calculate_daily_profits" /\ err = "none"

\* C13: after calculate_daily_profits, the daily_profit of every node times
\* the number of calendar days of the reference date's month (28, 29, 30 or
\* 31, February having 29 days exactly in leap years) is its monthly_revenue,
\* with one day count for all nodes.
C13_DailyProfitByCalendarDays ==
    Derived =>
        /\ CalendarDays(date) \in {28, 29, 30, 31}
        /\ \A i \in NodeIds(tree) :
              NodeOf(tree, i).daily_profit[1] * CalendarDays(date) =
                  NodeOf(tree, i).monthly_revenue * NodeOf(tree, i).daily_profit[2]

\* profits derived for February of a leap year in a forest of three nodes,
\* after they had been derived for another month
C13_Witness ==
    /\ Derived
    /\ date = <<2024, 2>>
    /\ Cardinality(NodeIds(tree)) = 3
    /\ \A i \in NodeIds(tree) : NodeOf(tree, i).daily_profit # Zero
    /\ \E i, j \in NodeIds(tree) : NodeOf(tree, i).daily_profit # NodeOf(tree, j).daily_profit

----------------------------------------------------------------------------
(* C14 *)

Stats == op = "get_stats" /\ err = "none"

\* the number of parent links between the node i and its root
DepthOf(t, i) == Cardinality(Ancestors(t, i))

\* the largest depth of a node, 0 for a forest of isolated roots
LongestPath(t) ==
    IF NodeIds(t) = {} THEN 0
    ELSE CHOOSE n \in 0..Cardinality(NodeIds(t)) :
            /\ \E i \in NodeIds(t) : DepthOf(t, i) = n
            /\ \A i \in NodeIds(t) : DepthOf(t, i) <= n

\* C14: get_stats returns the number of nodes, the number of nodes with no
\* parent_id, the number of nodes with no children and the number of edges
\* on the longest root-to-leaf path.
C14_StatsOfForest ==
    Stats =>
        /\ result.total_partners = Cardinality(NodeIds(tree))
        /\ result.root_partners =
              Cardinality({i \in NodeIds(tree) : NodeOf(tree, i).parent_id.t = "none"})
        /\ result.leaf_partners = Cardinality({i \in NodeIds(tree) : ChildIds(tree, i) = {}})
        /\ result.max_depth = LongestPath(tree)

----------------------------------------------------------------------------
(* C15 *)

Levels == op = "get_level_distribution" /\ err = "none"

\* C15: get_level_distribution maps exactly the levels that hold a node to
\* the number of nodes of the forest at that distance from their root, and
\* its largest level is the max_depth that get_stats reports.
C15_LevelDistribution ==
    Levels =>
        /\ DOMAIN result = {DepthOf(tree, i) : i \in NodeIds(tree)}
        /\ \A l \in DOMAIN result :
              /\ result[l] = Cardinality({i \in NodeIds(tree) : DepthOf(tree, i) = l})
              /\ result[l] > 0
        /\ \A l \in DOMAIN result : l <= get_stats(tree).max_depth
        /\ get_stats(tree).max_depth \in DOMAIN result

----------------------------------------------------------------------------
(* C16 *)

SharedId(d) == \E k, m \in 1..Len(d.items) : k < m /\ d.items[k].id = d.items[m].id

\* C16: when records share an id, building raises no error for it: it fails
\* only for a missing parent, and otherwise the mapping holds one node per
\* distinct id, carrying the parent_id, name and monthly_revenue of the last
\* record of that id.
C16_LastWriteWins ==
    (/\ Built
     /\ data.t = "list"
     /\ \A k \in 1..Len(data.items) : ~BadRecord(data.items[k])
     /\ SharedId(data))
    => /\ err \in {"none", "ParentNotFoundError"}
       /\ err = "ParentNotFoundError" => PairNamesOrphan
       /\ err = "none" =>
             /\ NodeIds(tree) = RecordIds(data)
             /\ Len(tree.keys) = Cardinality(RecordIds(data))
             /\ \A i \in RecordIds(data) :
                   /\ NodeOf(tree, i).id = i
                   /\ NodeOf(tree, i).parent_id = Get(LastRecord(data, i), "parent_id")
                   /\ NodeOf(tree, i).name = GetOr(LastRecord(data, i), "name", NameV(0))
                   /\ NodeOf(tree, i).monthly_revenue = LastRecord(data, i).monthly_revenue.v

\* three records built without error, the first and the third with the same
\* id and with different parent_id, name and monthly_revenue
C16_Witness ==
    /\ Built
    /\ err = "none"
    /\ Len(data.items) = 3
    /\ data.items[1].id = data.items[3].id
    /\ data.items[1].parent_id # data.items[3].parent_id
    /\ data.items[1].name # data.items[3].name
    /\ data.items[1].monthly_revenue # data.items[3].monthly_revenue
    /\ Cardinality(NodeIds(tree)) = 2

----------------------------------------------------------------------------
(* C17 *)

\* C17: in every forest the engine holds, the monthly_revenue, the
\* daily_profit and the total_commission of every node are non-negative.
C17_NonNegative ==
    is_loaded =>
        \A i \in NodeIds(tree) :
            /\ NodeOf(tree, i).monthly_revenue >= 0
            /\ NodeOf(tree, i).daily_profit[1] >= 0
            /\ NodeOf(tree, i).total_commission[1] >= 0

----------------------------------------------------------------------------
(* C18 *)

Validated == op = "validate"

\* how often the parent link of the id i was followed in the walks ws
RECURSIVE TimesFollowed(_, _)
TimesFollowed(ws, i) ==
    IF Len(ws) = 0 THEN 0
    ELSE Cardinality({k \in 1..Len(ws[1].links) : ws[1].links[k] = i})
         + TimesFollowed(Tail(ws), i)

\* C18: in one run of the cycle validation, every id a completed walk visited
\* is globally visited afterwards, no walk follows the parent link of an id
\* that was globally visited when the walk began, and so no parent link is
\* followed more than once in the run.
C18_WalksStopAtVisitedIds ==
    Validated =>
        LET ws == has_cycles(tree).walks
        IN  /\ \A k \in 1..Len(ws) :
                  /\ ws[k].start \in ws[k].after
                  /\ \A j \in 1..Len(ws[k].links) : ws[k].links[j] \in ws[k].after
                  /\ \A j \in 1..Len(ws[k].links) : ws[k].links[j] \notin ws[k].before
            /\ \A i \in NodeIds(tree) : TimesFollowed(ws, i) <= 1

----------------------------------------------------------------------------
(* C19 *)

NodeObjs(t) == {t.partners[i] : i \in NodeIds(t)}

\* the positions of the event e on the object ix
Pos(ev, e, ix) == {k \in 1..Len(ev) : ev[k] = Event(e, ix)}

\* the objects entered and not yet assigned after the first k events
Open(ev, k) ==
    {ev[j].ix : j \in {j \in 1..k : /\ ev[j].e = "enter"
                                      /\ \A m \in j + 1..k : ev[m] # Event("assign", ev[j].ix)}}

\* the positions at which a traversal starts: nothing is open before
TopEnters(ev) == {k \in 1..Len(ev) : ev[k].e = "enter" /\ Open(ev, k - 1) = {}}

\* S is a path from a root down to one object
IsRootPath(t, S) ==
    \/ S = {}
    \/ /\ Cardinality({ix \in S : is_root(t.objs[ix])}) = 1
       /\ \A ix \in S : ~is_root(t.objs[ix]) => t.partners[t.objs[ix].parent_id.v] \in S
       /\ \A ix, iy \in S :
             (/\ ix # iy
              /\ ~is_root(t.objs[ix])
              /\ ~is_root(t.objs[iy])) => t.objs[ix].parent_id # t.objs[iy].parent_id

\* C19: a run of calculate_commissions first resets the total_commission of
\* every node and then, root by root in roots order, enters every node once
\* and assigns its total_commission once, after those of all its children;
\* the nodes entered and not yet assigned always form one root-to-node path,
\* of at most height + 1 nodes.
C19_PostOrderOncePerNode ==
    Commissions =>
        LET ev == events
            n == Len(tree.keys)
        IN  /\ Len(ev) >= n
            /\ \A k \in 1..Len(ev) : (ev[k].e = "reset") <=> (k <= n)
            /\ {ev[k].ix : k \in 1..n} = NodeObjs(tree)
            /\ \A ix \in NodeObjs(tree) :
                  /\ Cardinality(Pos(ev, "enter", ix)) = 1
                  /\ Cardinality(Pos(ev, "assign", ix)) = 1
            /\ Cardinality(TopEnters(ev)) = Len(tree.roots)
            /\ \A a \in 1..Len(tree.roots) : \E k \in TopEnters(ev) : ev[k].ix = tree.roots[a]
            /\ \A a, b \in 1..Len(tree.roots) :
                  a < b => \E ka, kb \in TopEnters(ev) :
                              /\ ka < kb
                              /\ ev[ka].ix = tree.roots[a]
                              /\ ev[kb].ix = tree.roots[b]
            /\ \A i \in NodeIds(tree) : \A j \in ChildIds(tree, i) :
                  \A kc \in Pos(ev, "assign", tree.partners[j]) :
                      \A kp \in Pos(ev, "assign", tree.partners[i]) : kc < kp
            /\ \A k \in 1..Len(ev) :
                  /\ IsRootPath(tree, Open(ev, k))
                  /\ Cardinality(Open(ev, k)) <= LongestPath(tree) + 1

\* calculate_commissions has run on a forest of two roots, the first of them
\* with a child, after profits were derived
C19_Witness ==
    /\ Commissions
    /\ date # NoDate
    /\ Len(tree.roots) = 2
    /\ Cardinality(NodeIds(tree)) = 3
    /\ Len(tree.objs[tree.roots[1]].children) = 1
    /\ Len(events) = 9

----------------------------------------------------------------------------
(* C20 *)

\* the last record of some id declares a parent that is the id of no record
MissingParent(d) ==
    \E i \in RecordIds(d) :
        /\ DeclaresParent(LastRecord(d, i))
        /\ LastRecord(d, i).parent_id.v \notin RecordIds(d)

SomeBadRecord(d) == \E k \in 1..Len(d.items) : BadRecord(d.items[k])

\* C20: load_partners of a non-empty list fails with ValidationError, leaving
\* no forest, if any record is invalid, whatever the other records declare;
\* otherwise with ParentNotFoundError if a parent is missing, also when there
\* is a cycle; otherwise with CycleDetectedError if there is a cycle.
C20_FirstFailingCheckDecides ==
    (op = "load_partners" /\ data.t = "list" /\ Len(data.items) > 0) =>
        /\ SomeBadRecord(data) => (err = "ValidationError" /\ ~is_loaded)
        /\ (~SomeBadRecord(data) /\ MissingParent(data)) => err = "ParentNotFoundError"
        /\ (~SomeBadRecord(data) /\ ~MissingParent(data) /\ RecordCycle(data))
              => err = "CycleDetectedError"

\* a list with a cycle of two records and a third record whose parent is
\* missing is refused for the missing parent
C20_Witness ==
    /\ op = "load_partners"
    /\ err = "ParentNotFoundError"
    /\ Len(data.items) = 3
    /\ RecordCycle(data)
    /\ MissingParent(data)

----------------------------------------------------------------------------
(* C21 *)

\* the objects of the forests t and u differ at most in the given field
SameButField(t, u, field) ==
    /\ Len(u.objs) = Len(t.objs)
    /\ \A ix \in 1..Len(t.objs) : [t.objs[ix] EXCEPT ![field] = u.objs[ix][field]] = u.objs[ix]

\* C21: on a loaded forest, calculate_daily_profits changes only daily_profit
\* fields, calculate_commissions only total_commission fields, get_stats and
\* get_level_distribution nothing; the set of nodes and roots stay, and the
\* engine stays loaded.
C21_OnlyOwnFieldsChange ==
    [][(tree.some /\ op' \in QueryOps) =>
          /\ tree'.some
          /\ tree'.keys = tree.keys
          /\ tree'.partners = tree.partners
          /\ tree'.roots = tree.roots
          /\ op' = "calculate_daily_profits" => SameButField(tree, tree', "daily_profit")
          /\ op' = "calculate_commissions" => SameButField(tree, tree', "total_commission")
          /\ op' \in {"get_stats", "get_level_distribution"} => tree' = tree]_vars

\* calculate_commissions has run on a forest with derived profits and has
\* assigned a commission that is not zero
C21_Witness ==
    /\ Commissions
    /\ date # NoDate
    /\ \E i, j \in NodeIds(tree) :
          /\ NodeOf(tree, i).total_commission # Zero
          /\ NodeOf(tree, j).daily_profit # Zero

----------------------------------------------------------------------------
(* C22 *)

\* C22: from a successful load_partners until calculate_daily_profits runs,
\* every node has daily_profit 0 and total_commission 0, and
\* calculate_commissions returns 0 for every id.
C22_ZeroUntilDerived ==
    (is_loaded /\ date = NoDate) =>
        /\ \A i \in NodeIds(tree) :
              /\ NodeOf(tree, i).daily_profit = Zero
              /\ NodeOf(tree, i).total_commission = Zero
        /\ Commissions => \A key \in DOMAIN result : result[key] = 0

\* calculate_commissions called right after a root and its child were loaded
\* into an engine, no profit having been derived
C22_Witness ==
    /\ Commissions
    /\ date = NoDate
    /\ Cardinality(NodeIds(tree)) = 2
    /\ \E i \in NodeIds(tree) : ChildIds(tree, i) # {}
    /\ \A key \in DOMAIN result : result[key] = 0

----------------------------------------------------------------------------
(* C23 *)

WellFormed(d) == d.t = "list" /\ Len(d.items) > 0 /\ ~SomeBadRecord(d)

\* what a new OriginalCommissionEngine returns for the records d and the
\* reference date day
OriginalOutput(d, day) ==
    original_calculate_commissions(
        original_calculate_daily_profits(original_load_partners(d).tree, day))

\* C23: for well-formed, non-empty records the two engines agree: load_partners
\* fails in both with the same kind of error or succeeds in both, and then
\* calculate_daily_profits and calculate_commissions return the same mapping.
C23_EnginesAgree ==
    WellFormed(data) =>
        /\ op = "load_partners" => err = original_load_partners(data).err
        /\ (Commissions /\ date # NoDate) =>
              /\ original_load_partners(data).err = "none"
              /\ result = OriginalOutput(data, date)

\* both engines have computed the commissions of three records, two of them
\* with the same id, and one commission is not zero
C23_Witness ==
    /\ Commissions
    /\ date # NoDate
    /\ Len(data.items) = 3
    /\ SharedId(data)
    /\ result = OriginalOutput(data, date)
    /\ \E key \in DOMAIN result : result[key] # 0

----------------------------------------------------------------------------
(* C24 *)

AllDeclareParent(d) == \A k \in 1..Len(d.items) : DeclaresParent(d.items[k])

\* C24: load_partners never fails with NoRootError; a well-formed, non-empty
\* list in which every record declares a parent and no parent is missing
\* has a parent-link cycle and is refused with CycleDetectedError; the
\* validator run on a forest of the builder raises NoRootError only for the
\* empty list.
C24_NoRootErrorOnlyForEmptyList ==
    /\ op = "load_partners" => err # "NoRootError"
    /\ (/\ op = "load_partners"
        /\ WellFormed(data)
        /\ AllDeclareParent(data)
        /\ ~MissingParent(data)) => (err = "CycleDetectedError" /\ RecordCycle(data))
    /\ (op = "validate" /\ err = "NoRootError") => data = ListV(<<>>)

\* three records of three ids, each declaring a parent that exists, are
\* refused by load_partners for a cycle
C24_Witness ==
    /\ op = "load_partners"
    /\ err = "CycleDetectedError"
    /\ Len(data.items) = 3
    /\ Cardinality(RecordIds(data)) = 3
    /\ AllDeclareParent(data)
    /\ ~MissingParent(data)
    /\ Len(build_from_data(data).tree.roots) = 0

----------------------------------------------------------------------------
(* C25 *)

\* C25: in every forest the engine holds, each element of roots is the object
\* stored under its id in the mapping and has no parent_id, no id occurs
\* twice in roots, and get_stats reports root_partners <= total_partners.
C25_RootsAreNodes ==
    is_loaded =>
        /\ \A k \in 1..Len(tree.roots) :
              /\ tree.partners[tree.objs[tree.roots[k]].id] = tree.roots[k]
              /\ is_root(tree.objs[tree.roots[k]])
        /\ \A k, m \in 1..Len(tree.roots) :
              tree.objs[tree.roots[k]].id = tree.objs[tree.roots[m]].id => k = m
        /\ Stats => result.root_partners <= result.total_partners

----------------------------------------------------------------------------
(* C26 *)

RECURSIVE SumCounts(_, _)
SumCounts(level_counts, S) ==
    IF S = {} THEN 0
    ELSE LET l == CHOOSE l \in S : TRUE
         IN  level_counts[l] + SumCounts(level_counts, S \ {l})

\* C26: the counts of get_level_distribution sum to the total_partners of
\* get_stats, and the count at level 0 is the number of nodes of the forest
\* without parent_id.
C26_LevelCountsSumToTotal ==
    Levels =>
        /\ SumCounts(result, DOMAIN result) = get_stats(tree).total_partners
        /\ 0 \in DOMAIN result
        /\ result[0] = Cardinality({i \in NodeIds(tree) : is_root(NodeOf(tree, i))})

----------------------------------------------------------------------------
(* C27 *)

CycleFound == op = "validate" /\ err = "CycleDetectedError"

\* the chain of parent links from the id i runs into a cycle
LeadsIntoCycle(t, i) == \E j \in {i} \cup Ancestors(t, i) : j \in Ancestors(t, j)

\* C27 as stated: the id a CycleDetectedError carries is reachable from itself
\* by parent links.
C27_CarriedIdLiesOnCycle ==
    CycleFound => info[1] \in Ancestors(tree, info[1])

\* C27, amended: the id a CycleDetectedError carries is the first id of the
\* mapping, in insertion order, whose chain of parent links runs into a
\* cycle: it lies on the cycle or below it.
C27_CarriedIdLeadsIntoCycle ==
    CycleFound =>
        \E k \in 1..Len(tree.keys) :
            /\ info = <<tree.keys[k]>>
            /\ LeadsIntoCycle(tree, tree.keys[k])
            /\ \A m \in 1..(k - 1) : ~LeadsIntoCycle(tree, tree.keys[m])

\* the error carries the id of a node below a cycle, not on it
C27_Witness ==
    /\ CycleFound
    /\ info[1] \notin Ancestors(tree, info[1])
    /\ LeadsIntoCycle(tree, info[1])

----------------------------------------------------------------------------
(* C28 *)

RLeq(p, q) == p[1] * q[2] <= q[1] * p[2]

\* what the children S owe their parent: their commission and the
\* commission on their own profit
RECURSIVE SumOwed(_, _)
SumOwed(t, S) ==
    IF S = {} THEN Zero
    ELSE LET c == CHOOSE c \in S : TRUE
         IN  RAdd(RAdd(NodeOf(t, c).total_commission,
                       RMul(COMMISSION_RATE, NodeOf(t, c).daily_profit)),
                  SumOwed(t, S \ {c}))

NoNegativeRevenue(t) == \A i \in NodeIds(t) : NodeOf(t, i).monthly_revenue >= 0

----------------------------------------------------------------------------
(* C29 *)

Aggregated == op = "CommissionCalculator.calculate_commissions"
StatsOfBuilt == op = "TreeStatistics.get_stats"
LevelsOfBuilt == op = "TreeStatistics.get_level_distribution"

\* the object ix lies on a parent-link cycle or below one
OnOrBelowCycle(t, ix) ==
    /\ t.objs[ix].parent_id.t = "int"
    /\ HasKey(t, t.objs[ix].parent_id.v)
    /\ LeadsIntoCycle(t, t.objs[ix].parent_id.v)

\* the objects within n children links of the objects S
RECURSIVE DownWithin(_, _, _)
DownWithin(t, S, n) ==
    IF n = 0 THEN S
    ELSE DownWithin(t, S \cup UNION {{t.objs[ix].children[k] :
                                         k \in 1..Len(t.objs[ix].children)} : ix \in S},
                    n - 1)

\* the objects reachable from a root through children lists
FromRoots(t) == DownWithin(t, {t.roots[k] : k \in 1..Len(t.roots)}, Len(t.objs))

\* the number of children links from a root down to the object ix of FromRoots
LevelOf(t, ix) ==
    CHOOSE n \in 0..Len(t.objs) :
        /\ ix \in DownWithin(t, {t.roots[k] : k \in 1..Len(t.roots)}, n)
        /\ n > 0 => ix \notin DownWithin(t, {t.roots[k] : k \in 1..Len(t.roots)}, n - 1)

----------------------------------------------------------------------------
(* C30 *)

\* what load_partners(d) does on an engine that was just created: the error,
\* the ids it carries and the forest the engine holds afterwards
FreshLoad(d) ==
    IF d.t # "list" THEN [err |-> "TypeError", info |-> NoInfo, tree |-> None]
    ELSE IF Len(d.items) = 0 \/ validate_partner_data(d) # "none"
         THEN [err |-> "ValidationError", info |-> NoInfo, tree |-> None]
    ELSE LET b == build_from_data(d)
             c == CyclesFrom(b.tree, 1, {}, <<>>)
         IN  IF b.err # "none" THEN [err |-> b.err, info |-> b.info, tree |-> None]
             ELSE IF c.err # "none" THEN [err |-> c.err, info |-> c.info, tree |-> None]
             ELSE IF Len(b.tree.roots) = 0
                  THEN [err |-> "NoRootError", info |-> NoInfo, tree |-> None]
             ELSE [err |-> "none", info |-> NoInfo, tree |-> b.tree]

\* the forest of a fresh engine after load_partners(d) and, if a date is
\* given, calculate_daily_profits for it
FreshDerived(d, target_date) ==
    IF target_date = NoDate THEN FreshLoad(d).tree
    ELSE calculate_daily_profits(FreshLoad(d).tree, target_date)

\* C30: whatever was called on the engine before, load_partners(d) ends as on
\* a new engine: with the same error and ids or with the same forest, and
\* the statistics, level counts and commissions computed from that forest
\* afterwards are those a new engine computes after load_partners(d).
C30_LoadDependsOnlyOnInput ==
    /\ op = "load_partners" =>
          /\ err = FreshLoad(data).err
          /\ info = FreshLoad(data).info
          /\ tree = FreshLoad(data).tree
    /\ Stats => result = get_stats(FreshDerived(data, date))
    /\ Levels => result = get_level_distribution(FreshDerived(data, date))
    /\ Commissions =>
          /\ result = format_results(calculate_commissions(FreshDerived(data, date)))
          /\ tree = calculate_commissions(FreshDerived(data, date))

\* a list with a cycle is refused by an engine that held a validated forest
\* over the same ids just before
C30_Witness ==
    /\ op = "load_partners"
    /\ was_loaded
    /\ err = "CycleDetectedError"
    /\ detector_visited # {}

====
